---- MODULE Spec2Model ----
(***************************************************************************)
(* HASNA License Server (src/hasna-license-server/index.js).               *)
(*                                                                         *)
(* The state is the two tables of the database (licenses,                  *)
(* activation_logs), the process environment (ADMIN_KEY), the wall clock,  *)
(* the pool of connections and the requests in flight.  Every route        *)
(* handler is an async function: it runs atomically between two awaits,    *)
(* and other requests interleave at each await.  One action models one     *)
(* such segment of a handler.                                              *)
(***************************************************************************)
EXTENDS Integers, Sequences, FiniteSets, TLC

\* ---------------------------------------------------------------- bounds
\* Last instant of the wall clock that is explored.
MaxNow == 2
\* Largest number of requests that get as far as the pool of connections.
MaxAdmitted == 2
\* Clock instants per calendar day (the model's resolution of
\* 1000 * 60 * 60 * 24 milliseconds); instant d * TicksPerDay is 00:00 of day d.
TicksPerDay == 2

\* ------------------------------------------------------------ value sets
\* Request slots: the handlers that may be in flight at the same time.
Slots == {"r1", "r2"}

\* Strings that matter for their characters are sequences of characters.
\* <<>> is the empty (or absent) string.
RawKeys == { <<>>, <<"k", "1", " ">>, <<"K", "2">> }

\* A license_key member that is absent from the request body (undefined).
KeyUndefined == << "<undefined>" >>

\* !license_key
KeyFalsy(k) == k \in {<<>>, KeyUndefined}

\* machine_id values a caller sends; "" is the empty (or absent) one.
MachineInputs == {"", "PC-001", "PC-002"}

\* SQL NULL / JavaScript undefined.
NULL == "<null>"
NULL_TS == -1
UNDEFINED == "<undefined>"
NoDate == -1

\* Values of process.env.ADMIN_KEY and of the admin_key a caller supplies.
AdminKeyConfigs == {"s3cret", UNDEFINED}
AdminKeyInputs == {"s3cret", "wrong", UNDEFINED}

ClientNameInputs == {"", "Moulin Test"}
Dates == 0 .. (MaxNow \div TicksPerDay)
DateInputs == Dates \cup {NoDate}
IpAddresses == {"10.0.0.1"}

\* ------------------------------------------------------ pure functions
\* String.prototype.toUpperCase on one character.
UpperChar(c) == IF c = "k" THEN "K" ELSE c

toUpperCase(s) == [i \in DOMAIN s |-> UpperChar(s[i])]

RECURSIVE TrimLeft(_)
TrimLeft(s) == IF s # <<>> /\ Head(s) = " " THEN TrimLeft(Tail(s)) ELSE s

RECURSIVE TrimRight(_)
TrimRight(s) ==
    IF s # <<>> /\ s[Len(s)] = " " THEN TrimRight(SubSeq(s, 1, Len(s) - 1)) ELSE s

trim(s) == TrimRight(TrimLeft(s))

\* license_key.toUpperCase().trim()
NormalizeKey(s) == trim(toUpperCase(s))

\* JavaScript truthiness of a string-or-null value.
Falsy(x) == x \in {"", NULL, UNDEFINED}

\* The keys generateLicenseKey may return: upper case, no blanks, and with
\* no memory of the keys it returned before.
generateLicenseKey == { <<"K", "1">>, <<"K", "2">> }

\* new Date(license.expires_at): a DATE column is the instant 00:00 of its day.
DateToInstant(d) == d * TicksPerDay

\* The calendar date of an instant.
CurrentDate(t) == t \div TicksPerDay

\* Math.ceil(a / b) for b > 0.
Ceil(a, b) == -((-a) \div b)

\* Math.ceil((expiresAt - today) / (1000 * 60 * 60 * 24))
DaysRemaining(expiresAt, today) == Ceil(expiresAt - today, TicksPerDay)

\* today > expiresAt, both instants (activate).
IsExpired(today, expires_at) == today > DateToInstant(expires_at)

\* license.is_active && today <= expiresAt (verify).
IsValid(is_active, today, expires_at) ==
    is_active /\ today <= DateToInstant(expires_at)

\* admin_key !== process.env.ADMIN_KEY
AdminRefused(admin_key, configured) == admin_key # configured

\* ------------------------------------------------------------- records
NullRow ==
    [license_key |-> <<>>, client_name |-> "", machine_id |-> NULL,
     activated_at |-> NULL_TS, expires_at |-> NoDate, is_active |-> FALSE]

\* NewRow on a table whose is_active has no DEFAULT true.
NewRowInactive(license_key, client_name, expires_at) ==
    [license_key |-> license_key, client_name |-> client_name, machine_id |-> NULL,
     activated_at |-> NULL_TS, expires_at |-> expires_at, is_active |-> FALSE]

\* The row INSERT INTO licenses creates: machine_id and activated_at have no
\* default and is_active defaults to true.  (id, client_email, created_at and
\* notes are columns no handler reads back other than to list them.)
NewRow(license_key, client_name, expires_at) ==
    [license_key |-> license_key, client_name |-> client_name, machine_id |-> NULL,
     activated_at |-> NULL_TS, expires_at |-> expires_at, is_active |-> TRUE]

NoData ==
    [kind |-> "none", license_key |-> <<>>, client_name |-> "", expires_at |-> NoDate,
     days_remaining |-> 0, is_active |-> FALSE, rows |-> {}]

\* A response body; valid is "none" when the body has no such member.
Body(success, valid, message, date, data) ==
    [success |-> success, valid |-> valid, message |-> message, date |-> date,
     data |-> data]

NoBody == Body(FALSE, "none", "", NoDate, NoData)

\* What a handler keeps of the row it read: the members it uses after the
\* decision table (client_name and expires_at, for the response).
NoLicense == [client_name |-> "", expires_at |-> NoDate]

Kept(license) ==
    [client_name |-> license.client_name, expires_at |-> license.expires_at]

\* A request slot: the request's members and the handler's locals.  solo is
\* history: no other request was in flight since this one arrived.
IdleReq ==
    [op |-> "none", pc |-> "idle", license_key |-> <<>>, machine_id |-> "",
     ip_address |-> "", admin_key |-> UNDEFINED, client_name |-> "",
     expires_at |-> NoDate, gen_key |-> <<>>, license |-> NoLicense, today |-> 0,
     branch |-> "", solo |-> FALSE]

\* The members of the request that slot record r holds.
Inputs(r) ==
    [license_key |-> r.license_key, machine_id |-> r.machine_id,
     admin_key |-> r.admin_key, client_name |-> r.client_name,
     expires_at |-> r.expires_at]

\* The outcome of the handler of request r: status 0 when it ended without
\* answering.
Outcome(r, status, body) ==
    [op |-> r.op, request |-> Inputs(r), status |-> status, body |-> body]

\* No handler ended in the last step.
NoOutcome == Outcome(IdleReq, 0, NoBody)

\* --------------------------------------------------------------- state
VARIABLES
    licenses,    \* table licenses: the set of its rows
    log,         \* table activation_logs, in insertion order
    adminKey,    \* process.env.ADMIN_KEY
    now,         \* the wall clock
    checkedOut,  \* connections of the pool that are checked out
    req,         \* per slot: the request in flight, if any
    last,        \* the outcome of the handler that ended in the last step, if any
    granted,     \* per key: machines answered 200 by activate since the last reset
    admitted     \* requests admitted so far

vars == <<licenses, log, adminKey, now, checkedOut, req, last, granted, admitted>>

\* SELECT * FROM licenses WHERE license_key = k
RowsOfKey(k) == {r \in licenses : r.license_key = k}

InFlight(p) == req[p].pc # "idle"

\* A request that arrives is handled in the first slot that is free (the slots
\* are interchangeable: this names them in one way only).
FirstFree(p) ==
    /\ ~InFlight(p)
    /\ p = "r2" => InFlight("r1")

\* Slot p starts handling a request; the requests in flight are no longer alone.
Arrive(p, r) ==
    req' = [q \in Slots |->
              IF q = p THEN [r EXCEPT !.solo = \A o \in Slots \ {p} : ~InFlight(o)]
              ELSE IF InFlight(q) THEN [req[q] EXCEPT !.solo = FALSE]
              ELSE req[q]]

\* Slot p starts handling request r, which goes on to its first query.
Admit(p, r) ==
    /\ admitted < MaxAdmitted
    /\ admitted' = admitted + 1
    /\ Arrive(p, r)
    /\ checkedOut' = checkedOut + 1
    /\ last' = NoOutcome

\* The handler of request r, which has just arrived, ends at once.  The slot
\* never holds r, and of r the outcome keeps the operation only.
Reject(p, r, status, body) ==
    /\ Arrive(p, IdleReq)
    /\ UNCHANGED admitted
    /\ last' = Outcome([IdleReq EXCEPT !.op = r.op], status, body)
    /\ UNCHANGED checkedOut

\* res.status(status).json(body); the finally releases the connection and the
\* handler returns.
Respond(p, status, body) ==
    /\ req' = [req EXCEPT ![p] = IdleReq]
    /\ last' = Outcome(req[p], status, body)
    /\ checkedOut' = checkedOut - 1
    /\ UNCHANGED admitted

\* The licenses table as left by earlier runs of the server: nothing deletes a
\* row or changes is_active, so an inactive row dates from before Init.
InitLicenses ==
    { {} } \cup
    { { [NewRow(<<"K", "1">>, "Moulin Test", e) EXCEPT !.is_active = a] } :
      e \in Dates, a \in BOOLEAN }

Init ==
    /\ licenses \in InitLicenses
    /\ log = <<>>
    /\ adminKey \in AdminKeyConfigs
    /\ now = 0
    /\ checkedOut = 0
    /\ req = [p \in Slots |-> IdleReq]
    /\ last = NoOutcome
    /\ granted = [k \in generateLicenseKey |-> {}]
    /\ admitted = 0

\* The clock advances.
Tick ==
    /\ now < MaxNow
    /\ now' = now + 1
    /\ last' = NoOutcome
    /\ UNCHANGED <<licenses, log, adminKey, checkedOut, req, granted, admitted>>

\* ------------------------------------------------------------ activate
\* The row logActivation inserts into activation_logs.
LogEntry(r, success, message) ==
    [license_key |-> r.license_key, machine_id |-> r.machine_id,
     ip_address |-> r.ip_address, action |-> "ACTIVATE", success |-> success,
     message |-> message]

\* BoundElsewhere with === for !==.
BoundElsewhereSame(license, machine_id) ==
    ~Falsy(license.machine_id) /\ license.machine_id = machine_id

\* license.machine_id && license.machine_id !== machine_id
BoundElsewhere(license, machine_id) ==
    ~Falsy(license.machine_id) /\ license.machine_id # machine_id

\* ActivateBranch with the machine checked before the expiry date.
ActivateBranchMachineFirst(rows, machine_id, today) ==
    IF rows = {} THEN "notfound"
    ELSE LET license == CHOOSE r \in rows : TRUE IN
         IF ~license.is_active THEN "inactive"
         ELSE IF BoundElsewhere(license, machine_id) THEN "other"
         ELSE IF IsExpired(today, license.expires_at) THEN "expired"
         ELSE "ok"

\* The decision table of activate on the rows the SELECT returned, at instant
\* today: the first rejection that applies, or "ok".
ActivateBranch(rows, machine_id, today) ==
    IF rows = {} THEN "notfound"
    ELSE LET license == CHOOSE r \in rows : TRUE IN
         IF ~license.is_active THEN "inactive"
         ELSE IF IsExpired(today, license.expires_at) THEN "expired"
         ELSE IF BoundElsewhere(license, machine_id) THEN "other"
         ELSE "ok"

\* What logActivation is given on each branch: <<success, message>>.
ActivateLogArgs(branch) ==
    CASE branch = "notfound" -> <<FALSE, "Cle invalide">>
      [] branch = "inactive" -> <<FALSE, "Licence desactivee">>
      [] branch = "expired"  -> <<FALSE, "Licence expiree">>
      [] branch = "other"    -> <<FALSE, "Deja activee sur autre machine">>
      [] branch = "ok"       -> <<TRUE, "Activation reussie">>

OtherMachine ==
    "Cette licence est deja activee sur un autre ordinateur. Contactez le support pour la transferer."

\* The response of each branch: <<status, body>>.
ActivateResponse(branch, license, today) ==
    CASE branch = "notfound" ->
           <<404, Body(FALSE, "none", "Cle de licence invalide", NoDate, NoData)>>
      [] branch = "inactive" ->
           <<403, Body(FALSE, "none", "Cette licence a ete desactivee", NoDate, NoData)>>
      [] branch = "expired" ->
           <<403, Body(FALSE, "none", "Cette licence a expire le ",
                       license.expires_at, NoData)>>
      [] branch = "other" ->
           <<403, Body(FALSE, "none", OtherMachine, NoDate, NoData)>>
      [] branch = "ok" ->
           <<200, Body(TRUE, "none", "Licence activee avec succes", NoDate,
                       [NoData EXCEPT !.kind = "license",
                                      !.client_name = license.client_name,
                                      !.expires_at = license.expires_at,
                                      !.days_remaining =
                                          DaysRemaining(DateToInstant(license.expires_at),
                                                        today)])>>

\* UPDATE licenses SET machine_id = m, activated_at = CURRENT_TIMESTAMP
\* WHERE license_key = k
BindMachine(rows, k, m, t) ==
    {IF r.license_key = k THEN [r EXCEPT !.machine_id = m, !.activated_at = t] ELSE r :
       r \in rows}


MissingInput ==
    Body(FALSE, "none", "Cle de licence et identifiant machine requis", NoDate, NoData)

ActivateRequest(license_key, machine_id, ip_address) ==
    [IdleReq EXCEPT !.op = "activate", !.license_key = license_key,
                    !.machine_id = machine_id, !.ip_address = ip_address]

\* The request is read and validated, and a connection is asked of the pool.
ActivateBegin(p, license_key, machine_id, ip_address) ==
    /\ FirstFree(p)
    /\ LET r == ActivateRequest(license_key, machine_id, ip_address)
       IN IF KeyFalsy(license_key) \/ Falsy(machine_id)
          THEN Reject(p, r, 400, MissingInput)
          ELSE Admit(p, [r EXCEPT !.pc = "act_select"])
    /\ UNCHANGED <<licenses, log, adminKey, now, granted>>

\* The SELECT returns and the decision table runs, up to the next await: the
\* UPDATE when the license is to be bound, logActivation otherwise.
ActivateSelect(p) ==
    /\ req[p].pc = "act_select"
    /\ LET rows == RowsOfKey(NormalizeKey(req[p].license_key))
           branch == ActivateBranch(rows, req[p].machine_id, now)
           license == IF rows = {} THEN NullRow ELSE CHOOSE r \in rows : TRUE
       IN req' = [req EXCEPT ![p].license = Kept(license), ![p].today = now,
                             ![p].branch = branch,
                             ![p].pc = IF branch = "ok" /\ Falsy(license.machine_id)
                                       THEN "act_update" ELSE "act_log"]
    /\ last' = NoOutcome
    /\ UNCHANGED <<licenses, log, adminKey, now, checkedOut, granted, admitted>>

\* The UPDATE binds the license to the caller's machine.
ActivateUpdate(p) ==
    /\ req[p].pc = "act_update"
    /\ licenses' = BindMachine(licenses, NormalizeKey(req[p].license_key),
                               req[p].machine_id, now)
    /\ req' = [req EXCEPT ![p].pc = "act_log"]
    /\ last' = NoOutcome
    /\ UNCHANGED <<log, adminKey, now, checkedOut, granted, admitted>>

\* ActivateAnswer with the days remaining counted from a fresh new Date().
ActivateAnswerFreshToday(p) ==
    LET resp == ActivateResponse(req[p].branch, req[p].license, now)
        k == NormalizeKey(req[p].license_key)
    IN /\ Respond(p, resp[1], resp[2])
       /\ granted' = IF req[p].branch = "ok"
                     THEN [granted EXCEPT ![k] = @ \cup {req[p].machine_id}]
                     ELSE granted

\* The response of the branch is sent and the connection released.
ActivateAnswer(p) ==
    LET resp == ActivateResponse(req[p].branch, req[p].license, req[p].today)
        k == NormalizeKey(req[p].license_key)
    IN /\ Respond(p, resp[1], resp[2])
       /\ granted' = IF req[p].branch = "ok"
                     THEN [granted EXCEPT ![k] = @ \cup {req[p].machine_id}]
                     ELSE granted

\* logActivation inserts its row, then the handler answers.
ActivateLog(p) ==
    /\ req[p].pc = "act_log"
    /\ LET a == ActivateLogArgs(req[p].branch)
       IN log' = Append(log, LogEntry(req[p], a[1], a[2]))
    /\ ActivateAnswer(p)
    /\ UNCHANGED <<licenses, adminKey, now>>

\* -------------------------------------------------------------- verify
\* VerifyRows without "AND machine_id = $2".
VerifyRowsByKey(rows, k, m) == {r \in rows : r.license_key = k}

\* SELECT * FROM licenses WHERE license_key = k AND machine_id = m
\* (machine_id = m is not true of a row whose machine_id is NULL).
VerifyRows(rows, k, m) ==
    {r \in rows : r.license_key = k /\ r.machine_id # NULL /\ r.machine_id = m}

NotFound ==
    Body(FALSE, "false", "Licence non trouvee ou machine non autorisee", NoDate, NoData)

\* The response of verify on the rows its SELECT returned: <<status, body>>.
VerifyResponse(rows, today) ==
    IF rows = {}
    THEN <<200, NotFound>>
    ELSE LET license == CHOOSE r \in rows : TRUE IN
         <<200, Body(TRUE,
                     IF IsValid(license.is_active, today, license.expires_at)
                     THEN "true" ELSE "false",
                     "", NoDate,
                     [NoData EXCEPT !.kind = "verify",
                                    !.client_name = license.client_name,
                                    !.expires_at = license.expires_at,
                                    !.days_remaining =
                                        DaysRemaining(DateToInstant(license.expires_at),
                                                      today),
                                    !.is_active = license.is_active])>>

VerifyRequest(license_key, machine_id) ==
    [IdleReq EXCEPT !.op = "verify", !.license_key = license_key,
                    !.machine_id = machine_id]

VerifyBegin(p, license_key, machine_id) ==
    /\ FirstFree(p)
    /\ LET r == VerifyRequest(license_key, machine_id)
       IN IF KeyFalsy(license_key) \/ Falsy(machine_id)
          THEN Reject(p, r, 400, MissingInput)
          ELSE Admit(p, [r EXCEPT !.pc = "ver_select"])
    /\ UNCHANGED <<licenses, log, adminKey, now, granted>>

\* VerifySelect with the attempt written to activation_logs as a VERIFY.
VerifySelectLogged(p) ==
    /\ req[p].pc = "ver_select"
    /\ LET resp == VerifyResponse(VerifyRows(licenses, NormalizeKey(req[p].license_key),
                                             req[p].machine_id), now)
       IN /\ Respond(p, resp[1], resp[2])
          /\ log' = Append(log, [LogEntry(req[p], resp[2].success, resp[2].message)
                                    EXCEPT !.action = "VERIFY"])
    /\ UNCHANGED <<licenses, adminKey, now, granted>>

\* The SELECT returns, the answer is computed and sent, the connection released.
VerifySelect(p) ==
    /\ req[p].pc = "ver_select"
    /\ LET resp == VerifyResponse(VerifyRows(licenses, NormalizeKey(req[p].license_key),
                                             req[p].machine_id), now)
       IN Respond(p, resp[1], resp[2])
    /\ UNCHANGED <<licenses, log, adminKey, now, granted>>

\* --------------------------------------------------------------- admin
Unauthorized == Body(FALSE, "none", "Acces non autorise", NoDate, NoData)

CreateRequest(admin_key, client_name, expires_at) ==
    [IdleReq EXCEPT !.op = "create", !.admin_key = admin_key,
                    !.client_name = client_name, !.expires_at = expires_at]

CreateBegin(p, admin_key, client_name, expires_at) ==
    /\ FirstFree(p)
    /\ LET r == CreateRequest(admin_key, client_name, expires_at)
       IN IF AdminRefused(admin_key, adminKey)
          THEN Reject(p, r, 401, Unauthorized)
          ELSE IF Falsy(client_name) \/ expires_at = NoDate
          THEN Reject(p, r, 400,
                      Body(FALSE, "none", "Nom du client et date d'expiration requis",
                           NoDate, NoData))
          ELSE \E k \in generateLicenseKey :
                  Admit(p, [r EXCEPT !.pc = "cre_insert", !.gen_key = k])
    /\ UNCHANGED <<licenses, log, adminKey, now, granted>>

\* CreateInsert on a license_key column that is not UNIQUE.
CreateInsertNotUnique(p) ==
    /\ req[p].pc = "cre_insert"
    /\ licenses' = licenses \cup
          {NewRow(req[p].gen_key, req[p].client_name, req[p].expires_at)}
    /\ Respond(p, 200, Body(TRUE, "none", "Licence creee avec succes", NoDate,
                            [NoData EXCEPT !.kind = "created",
                                           !.license_key = req[p].gen_key,
                                           !.client_name = req[p].client_name,
                                           !.expires_at = req[p].expires_at]))
    /\ UNCHANGED <<log, adminKey, now, granted>>

\* The INSERT: license_key is UNIQUE, so a key that has a row makes the INSERT
\* throw, which the handler answers with its 500.
CreateInsert(p) ==
    /\ req[p].pc = "cre_insert"
    /\ IF RowsOfKey(req[p].gen_key) # {}
       THEN /\ Respond(p, 500, Body(FALSE, "none",
                                    "Erreur lors de la creation de la licence",
                                    NoDate, NoData))
            /\ UNCHANGED licenses
       ELSE /\ licenses' = licenses \cup
                  {NewRow(req[p].gen_key, req[p].client_name, req[p].expires_at)}
            /\ Respond(p, 200, Body(TRUE, "none", "Licence creee avec succes", NoDate,
                                    [NoData EXCEPT !.kind = "created",
                                                   !.license_key = req[p].gen_key,
                                                   !.client_name = req[p].client_name,
                                                   !.expires_at = req[p].expires_at]))
    /\ UNCHANGED <<log, adminKey, now, granted>>

ListRequest(admin_key) == [IdleReq EXCEPT !.op = "list", !.admin_key = admin_key]

ListBegin(p, admin_key) ==
    /\ FirstFree(p)
    /\ LET r == ListRequest(admin_key)
       IN IF AdminRefused(admin_key, adminKey)
          THEN Reject(p, r, 401, Unauthorized)
          ELSE Admit(p, [r EXCEPT !.pc = "list_select"])
    /\ UNCHANGED <<licenses, log, adminKey, now, granted>>

\* SELECT * FROM licenses ORDER BY created_at DESC.  The answer is kept as the
\* keys of the rows listed; their order is not modelled.
ListSelect(p) ==
    /\ req[p].pc = "list_select"
    /\ Respond(p, 200, Body(TRUE, "none", "", NoDate,
                            [NoData EXCEPT !.kind = "rows",
                                           !.rows = {r.license_key : r \in licenses}]))
    /\ UNCHANGED <<licenses, log, adminKey, now, granted>>

\* UnbindMachine that also clears activated_at.
UnbindMachineStamped(rows, k) ==
    {IF r.license_key = k THEN [r EXCEPT !.machine_id = NULL, !.activated_at = NULL_TS]
     ELSE r : r \in rows}

\* UPDATE licenses SET machine_id = NULL WHERE license_key = k
UnbindMachine(rows, k) ==
    {IF r.license_key = k THEN [r EXCEPT !.machine_id = NULL] ELSE r : r \in rows}

ResetRequest(admin_key, license_key) ==
    [IdleReq EXCEPT !.op = "reset", !.admin_key = admin_key,
                    !.license_key = license_key]

ResetBegin(p, admin_key, license_key) ==
    /\ FirstFree(p)
    /\ LET r == ResetRequest(admin_key, license_key)
       IN IF AdminRefused(admin_key, adminKey)
          THEN Reject(p, r, 401, Unauthorized)
          ELSE Admit(p, [r EXCEPT !.pc = "reset_update"])
    /\ UNCHANGED <<licenses, log, adminKey, now, granted>>

\* The UPDATE ... RETURNING *.  A request with no license_key member throws at
\* license_key.toUpperCase(), inside the try, before the query is sent.
ResetUpdate(p) ==
    /\ req[p].pc = "reset_update"
    /\ LET k == NormalizeKey(req[p].license_key) IN
       IF req[p].license_key = KeyUndefined
       THEN /\ Respond(p, 500, Body(FALSE, "none", "Erreur serveur", NoDate, NoData))
            /\ UNCHANGED <<licenses, granted>>
       ELSE IF RowsOfKey(k) = {}
       THEN /\ Respond(p, 404, Body(FALSE, "none", "Licence non trouvee", NoDate, NoData))
            /\ UNCHANGED <<licenses, granted>>
       ELSE /\ licenses' = UnbindMachine(licenses, k)
            /\ granted' = [granted EXCEPT ![k] = {}]
            /\ Respond(p, 200, Body(TRUE, "none",
                  "Machine reinitialisee. La licence peut etre activee sur un nouveau PC.",
                  NoDate, NoData))
    /\ UNCHANGED <<log, adminKey, now>>

\* ------------------------------------------------- persistence failures
\* pool.connect() rejects.  The await is outside the handler's try, so the
\* rejection leaves the handler: nothing is answered and no connection is held.
ConnectFail(p, r) ==
    /\ FirstFree(p)
    /\ Reject(p, r, 0, NoBody)
    /\ UNCHANGED <<licenses, log, adminKey, now, granted>>

ActivateConnectFail(p, license_key, machine_id, ip_address) ==
    /\ ~(KeyFalsy(license_key) \/ Falsy(machine_id))
    /\ ConnectFail(p, ActivateRequest(license_key, machine_id, ip_address))

VerifyConnectFail(p, license_key, machine_id) ==
    /\ ~(KeyFalsy(license_key) \/ Falsy(machine_id))
    /\ ConnectFail(p, VerifyRequest(license_key, machine_id))

CreateConnectFail(p, admin_key, client_name, expires_at) ==
    /\ ~AdminRefused(admin_key, adminKey)
    /\ ~(Falsy(client_name) \/ expires_at = NoDate)
    /\ ConnectFail(p, CreateRequest(admin_key, client_name, expires_at))

ListConnectFail(p, admin_key) ==
    /\ ~AdminRefused(admin_key, adminKey)
    /\ ConnectFail(p, ListRequest(admin_key))

ResetConnectFail(p, admin_key, license_key) ==
    /\ ~AdminRefused(admin_key, adminKey)
    /\ ConnectFail(p, ResetRequest(admin_key, license_key))

\* QueryFail with no finally: the catch answers and the connection is kept.
QueryFailNoRelease(p, pcs, message) ==
    /\ req[p].pc \in pcs
    /\ req' = [req EXCEPT ![p] = IdleReq]
    /\ last' = Outcome(req[p], 500, Body(FALSE, "none", message, NoDate, NoData))
    /\ UNCHANGED <<licenses, log, adminKey, now, checkedOut, granted, admitted>>

\* A query rejects inside the try: the catch answers 500 with the handler's
\* message and the finally releases the connection.
QueryFail(p, pcs, message) ==
    /\ req[p].pc \in pcs
    /\ Respond(p, 500, Body(FALSE, "none", message, NoDate, NoData))
    /\ UNCHANGED <<licenses, log, adminKey, now, granted>>

ActivateQueryFail(p) ==
    /\ req[p].op = "activate"
    /\ QueryFail(p, {"act_select", "act_update"}, "Erreur serveur lors de l'activation")

VerifyQueryFail(p) ==
    /\ req[p].op = "verify"
    /\ QueryFail(p, {"ver_select"}, "Erreur serveur")

CreateQueryFail(p) ==
    /\ req[p].op = "create"
    /\ QueryFail(p, {"cre_insert"}, "Erreur lors de la creation de la licence")

ListQueryFail(p) ==
    /\ req[p].op = "list"
    /\ QueryFail(p, {"list_select"}, "Erreur serveur")

ResetQueryFail(p) ==
    /\ req[p].license_key # KeyUndefined
    /\ QueryFail(p, {"reset_update"}, "Erreur serveur")

\* ActivateLogFail with no catch in logActivation: the handler's catch answers.
ActivateLogFailSurfaced(p) ==
    /\ req[p].pc = "act_log"
    /\ Respond(p, 500, Body(FALSE, "none", "Erreur serveur lors de l'activation",
                            NoDate, NoData))
    /\ UNCHANGED <<licenses, log, adminKey, now, granted>>

\* The INSERT of logActivation rejects: its catch swallows the error, no row is
\* written, and the handler answers as it would have.
ActivateLogFail(p) ==
    /\ req[p].pc = "act_log"
    /\ ActivateAnswer(p)
    /\ UNCHANGED <<licenses, log, adminKey, now>>

\* ------------------------------------------------------ specifications
Requests ==
    \E p \in Slots :
       \/ \E k \in RawKeys, m \in MachineInputs, ip \in IpAddresses :
             ActivateBegin(p, k, m, ip)
       \/ ActivateSelect(p)
       \/ ActivateUpdate(p)
       \/ ActivateLog(p)
       \/ \E k \in RawKeys, m \in MachineInputs : VerifyBegin(p, k, m)
       \/ VerifySelect(p)
       \/ \E a \in AdminKeyInputs, n \in ClientNameInputs, e \in DateInputs :
             CreateBegin(p, a, n, e)
       \/ CreateInsert(p)
       \/ \E a \in AdminKeyInputs : ListBegin(p, a)
       \/ ListSelect(p)
       \/ \E a \in AdminKeyInputs, k \in RawKeys \cup {KeyUndefined} :
             ResetBegin(p, a, k)
       \/ ResetUpdate(p)

Next == Requests \/ Tick

\* The persistence layer always answers.
Spec == Init /\ [][Next]_vars

Failures ==
    \E p \in Slots :
       \/ \E k \in RawKeys, m \in MachineInputs, ip \in IpAddresses :
             ActivateConnectFail(p, k, m, ip)
       \/ \E k \in RawKeys, m \in MachineInputs : VerifyConnectFail(p, k, m)
       \/ \E a \in AdminKeyInputs, n \in ClientNameInputs, e \in DateInputs :
             CreateConnectFail(p, a, n, e)
       \/ \E a \in AdminKeyInputs : ListConnectFail(p, a)
       \/ \E a \in AdminKeyInputs, k \in RawKeys \cup {KeyUndefined} :
             ResetConnectFail(p, a, k)
       \/ ActivateQueryFail(p)
       \/ VerifyQueryFail(p)
       \/ CreateQueryFail(p)
       \/ ListQueryFail(p)
       \/ ResetQueryFail(p)
       \/ ActivateLogFail(p)

NextF == Next \/ Failures

\* The persistence layer may fail at any call.
SpecF == Init /\ [][NextF]_vars

\* ------------------------------------------------------------- steps
\* Slot p's handler takes a step.
Moves(p) == req'[p].pc # req[p].pc

\* The SELECT of activate returns to slot p.
ActivateSelects(p) == req[p].pc = "act_select" /\ req'[p].pc \in {"act_update", "act_log"}

\* The UPDATE of activate is done for slot p.
ActivateUpdates(p) == req[p].pc = "act_update" /\ req'[p].pc = "act_log"

\* Slot p's activate answers after logActivation.
ActivateAnswers(p) == req[p].pc = "act_log" /\ req'[p].pc = "idle"

\* The SELECT of verify returns to slot p, which answers.
VerifyAnswers(p) == req[p].pc = "ver_select" /\ req'[p].pc = "idle" /\ last'.status = 200

\* The UPDATE of resetMachine is done for slot p.
ResetUpdates(p) == req[p].pc = "reset_update" /\ req'[p].pc = "idle"

\* The row of key k, when it has one.
RowOf(k) == CHOOSE r \in RowsOfKey(k) : TRUE

\* The license is not expired: the current date is at most expires_at.
Unexpired(r, t) == CurrentDate(t) <= r.expires_at

\* ------------------------------------------------------------- claims
\* C1: under every interleaving of activate requests, a boundMachineId that is
\* not null is never changed to another machine identifier by an activate:
\* only a resetMachine changes it.
C1_BoundMachineOnlyReset ==
    [][\A r \in licenses :
          r.machine_id # NULL =>
             \A r2 \in licenses' :
                (r2.license_key = r.license_key /\ r2.machine_id # r.machine_id)
                   => \E p \in Slots : ResetUpdates(p)]_vars

\* C2: with no resetMachine in between, activate never answers success to two
\* different machine identifiers for one license.
C2_OneMachineGranted ==
    \A k \in DOMAIN granted : Cardinality(granted[k]) <= 1

\* C3: an active license whose expires_at is the current date passes the
\* expiry check of activate and verifies valid (from the bound machine) at any
\* time of that day; one whose expires_at is the day before is refused by
\* activate with 403 (expired) and verifies not valid.
C3_ExpiryBoundary ==
    [][\A p \in Slots :
          LET k == NormalizeKey(req[p].license_key)
              r == RowOf(k)
          IN /\ (ActivateSelects(p) /\ RowsOfKey(k) # {} /\ r.is_active) =>
                   /\ r.expires_at = CurrentDate(now) => req'[p].branch # "expired"
                   /\ r.expires_at = CurrentDate(now) - 1 =>
                         /\ req'[p].branch = "expired"
                         /\ ActivateResponse(req'[p].branch, req'[p].license,
                                             req'[p].today)[1] = 403
             /\ (VerifyAnswers(p) /\ RowsOfKey(k) # {} /\ r.is_active
                   /\ r.machine_id = req[p].machine_id) =>
                   /\ r.expires_at = CurrentDate(now) => last'.body.valid = "true"
                   /\ r.expires_at = CurrentDate(now) - 1 => last'.body.valid = "false"]_vars

\* A secret that is missing, or is not the configured one.
BadSecret(admin_key) == admin_key = UNDEFINED \/ admin_key # adminKey

\* C4: create, list and resetMachine with a missing or wrong secret answer 401
\* whatever their other inputs, and leave the licenses and the audit log as
\* they were, for every configured secret, none configured included.
C4_BadSecretUnauthorized ==
    [][\A p \in Slots, a \in AdminKeyInputs :
          (/\ BadSecret(a)
           /\ \/ \E n \in ClientNameInputs, e \in DateInputs : CreateBegin(p, a, n, e)
              \/ ListBegin(p, a)
              \/ \E k \in RawKeys \cup {KeyUndefined} : ResetBegin(p, a, k))
          => /\ last'.status = 401
             /\ ~last'.body.success
             /\ ~InFlight(p)'
             /\ UNCHANGED <<licenses, log>>]_vars

\* C5: an activate with no concurrent request, on a license that exists, is
\* active, is not expired and is unbound, binds the license to the caller's
\* machine with activated_at the current time, and answers success.
C5_UnboundActivateBinds ==
    [][\A p \in Slots :
          LET k == NormalizeKey(req[p].license_key) IN
          /\ (/\ ActivateSelects(p) /\ req[p].solo /\ RowsOfKey(k) # {}
              /\ RowOf(k).is_active /\ Unexpired(RowOf(k), now)
              /\ RowOf(k).machine_id = NULL)
             => req'[p].pc = "act_update" /\ req'[p].branch = "ok"
          /\ (ActivateUpdates(p) /\ req[p].solo)
             => \E r \in licenses' :
                   /\ r.license_key = k
                   /\ r.machine_id = req[p].machine_id
                   /\ r.activated_at = now
          /\ (ActivateAnswers(p) /\ req[p].solo /\ req[p].branch = "ok")
             => /\ last'.status = 200
                /\ last'.body.success
                /\ RowOf(k).machine_id = req[p].machine_id]_vars

\* C6: activate from machine m2 on an active, unexpired license bound to
\* another machine m1 answers 403 with success false and leaves the licenses
\* as they were.
C6_OtherMachineForbidden ==
    [][\A p \in Slots :
          LET k == NormalizeKey(req[p].license_key) IN
          /\ (/\ ActivateSelects(p) /\ RowsOfKey(k) # {}
              /\ RowOf(k).is_active /\ Unexpired(RowOf(k), now)
              /\ RowOf(k).machine_id \notin {NULL, req[p].machine_id})
             => /\ req'[p].pc = "act_log"
                /\ req'[p].branch \in {"other", "expired"}
                /\ licenses' = licenses
          /\ (ActivateAnswers(p) /\ req[p].branch \in {"other", "expired"})
             => /\ last'.status = 403
                /\ ~last'.body.success
                /\ licenses' = licenses]_vars

\* C6 happens: activate has just answered 403 "on another machine" for a
\* license that is bound to a machine other than the caller's.
C6_Witness ==
    /\ last.op = "activate" /\ last.status = 403
    /\ last.body.message = OtherMachine
    /\ \E r \in licenses :
          /\ r.license_key = NormalizeKey(last.request.license_key)
          /\ r.machine_id \notin {NULL, last.request.machine_id}

\* C7: activate from machine m on an active, unexpired license already bound
\* to m answers success, leaves the licenses as they were (activated_at
\* included), and appends one ACTIVATE entry with success true; so any number of
\* repetitions leaves the state one leaves.
C7_ReactivationIdempotent ==
    [][\A p \in Slots :
          LET k == NormalizeKey(req[p].license_key) IN
          /\ (/\ ActivateSelects(p) /\ RowsOfKey(k) # {}
              /\ RowOf(k).is_active /\ Unexpired(RowOf(k), now)
              /\ RowOf(k).machine_id = req[p].machine_id)
             => /\ req'[p].pc = "act_log"
                /\ req'[p].branch = "ok"
                /\ licenses' = licenses
          /\ (ActivateAnswers(p) /\ req[p].branch = "ok")
             => /\ last'.status = 200
                /\ last'.body.success
                /\ licenses' = licenses
                /\ Len(log') = Len(log) + 1
                /\ SubSeq(log', 1, Len(log)) = log
                /\ log'[Len(log')].action = "ACTIVATE"
                /\ log'[Len(log')].success]_vars

\* C8: verify from the machine a license is bound to answers success true, and
\* valid true exactly when is_active is true and the current date is at most
\* expires_at.
C8_VerifyValidIff ==
    [][\A p \in Slots :
          LET k == NormalizeKey(req[p].license_key) IN
          (/\ VerifyAnswers(p) /\ RowsOfKey(k) # {}
           /\ RowOf(k).machine_id = req[p].machine_id)
          => /\ last'.status = 200
             /\ last'.body.success
             /\ last'.body.valid \in {"true", "false"}
             /\ last'.body.valid = "true"
                   <=> (RowOf(k).is_active /\ Unexpired(RowOf(k), now))]_vars

\* C9: verify answers the same (status 200, success false, valid false, the
\* same message) whether the key has no row or has a row that is unbound or
\* bound to a machine other than the caller's.
C9_VerifyHidesExistence ==
    [][\A p \in Slots :
          LET k == NormalizeKey(req[p].license_key) IN
          (/\ VerifyAnswers(p)
           /\ \/ RowsOfKey(k) = {}
              \/ RowOf(k).machine_id # req[p].machine_id)
          => /\ last'.status = 200
             /\ last'.body = NotFound]_vars

\* C9 happens: verify has just answered for a key that has a row, unbound or
\* bound to another machine.
C9_Witness ==
    /\ last.op = "verify" /\ last.status = 200
    /\ \E r \in licenses :
          /\ r.license_key = NormalizeKey(last.request.license_key)
          /\ r.machine_id # last.request.machine_id

\* C10: no step of a verify handler, whatever its input and its outcome (400,
\* not found, valid, not valid, 500), changes a license or appends to the
\* audit log.
C10_VerifyReadOnly ==
    [][(\/ last'.op = "verify"
        \/ \E p \in Slots : Moves(p) /\ (req[p].op = "verify" \/ req'[p].op = "verify"))
       => UNCHANGED <<licenses, log>>]_vars

\* C10 happens: verify has just answered 500 while there are licenses and
\* audit entries to keep.
C10_Witness ==
    /\ last.op = "verify" /\ last.status = 500
    /\ licenses # {} /\ log # <<>>

\* C11: resetMachine with the correct secret on a key that has a row sets that
\* row's machine_id to NULL whatever it was and leaves its activated_at,
\* is_active and expires_at, every other row and the audit log as they were;
\* on a key with no row it answers 404 and changes nothing.
C11_ResetFrame ==
    [][\A p \in Slots :
          LET k == NormalizeKey(req[p].license_key) IN
          (ResetUpdates(p) /\ req[p].license_key # KeyUndefined)
          => /\ log' = log
             /\ RowsOfKey(k) = {} =>
                   /\ last'.status = 404 /\ ~last'.body.success
                   /\ licenses' = licenses
             /\ RowsOfKey(k) # {} =>
                   /\ last'.status = 200 /\ last'.body.success
                   /\ Cardinality(licenses') = Cardinality(licenses)
                   /\ \A r \in licenses :
                         IF r.license_key = k
                         THEN \E r2 \in licenses' :
                                 /\ r2.license_key = k
                                 /\ r2.machine_id = NULL
                                 /\ r2.activated_at = r.activated_at
                                 /\ r2.is_active = r.is_active
                                 /\ r2.expires_at = r.expires_at
                                 /\ r2.client_name = r.client_name
                         ELSE r \in licenses']_vars

\* C11 happens: resetMachine has just answered 200 for a license that had been
\* bound: its machine_id is NULL and its activated_at is kept.
C11_Witness ==
    /\ last.op = "reset" /\ last.status = 200
    /\ \E r \in licenses :
          /\ r.license_key = NormalizeKey(last.request.license_key)
          /\ r.machine_id = NULL
          /\ r.activated_at # NULL_TS

\* Slot p's activate handler ends in this step, or an activate that has just
\* arrived ends at once.
ActivateEnds ==
    \/ last'.op = "activate"
    \/ \E p \in Slots : req[p].op = "activate" /\ InFlight(p) /\ ~InFlight(p)'

\* C12: every activate attempt, accepted or refused, appends exactly one entry
\* to the audit log, with action ACTIVATE and with the success flag that is
\* answered to the caller: the step in which an attempt ends appends that one
\* entry, and no other step of an activate handler appends any.
C12_OneEntryPerAttempt ==
    [][(ActivateEnds =>
          /\ Len(log') = Len(log) + 1
          /\ SubSeq(log', 1, Len(log)) = log
          /\ log'[Len(log')].action = "ACTIVATE"
          /\ log'[Len(log')].success = last'.body.success)
       /\ ((~ActivateEnds /\ \E p \in Slots : Moves(p) /\ req'[p].op = "activate")
             => log' = log)]_vars

\* C13: the decision table of activate is evaluated in the order unknown key
\* (404), is_active false (403 deactivated), expired (403 expired), bound to
\* another machine (403 other machine).  When several of these hold the answer
\* is that of the first: a key with no row is answered 404; an inactive license
\* is answered "deactivated" even when it is also expired or bound elsewhere;
\* an active license past its expiry date is answered "expired" even when it is
\* also bound elsewhere; "other machine" is answered only when none of the
\* earlier ones holds.  No step of a rejected activate changes a license.
C13_DecisionOrder ==
    [][\A p \in Slots :
          LET k == NormalizeKey(req[p].license_key)
              r == RowOf(k)
          IN /\ ActivateSelects(p) =>
                   /\ RowsOfKey(k) = {} => req'[p].branch = "notfound"
                   /\ (RowsOfKey(k) # {} /\ ~r.is_active) => req'[p].branch = "inactive"
                   /\ (RowsOfKey(k) # {} /\ r.is_active /\ ~Unexpired(r, now))
                         => req'[p].branch = "expired"
                   /\ req'[p].branch = "other" =>
                         /\ RowsOfKey(k) # {} /\ r.is_active /\ Unexpired(r, now)
                         /\ r.machine_id \notin {NULL, req[p].machine_id}
                   /\ req'[p].branch # "ok" => licenses' = licenses /\ req'[p].pc = "act_log"
             /\ (ActivateAnswers(p) /\ req[p].branch # "ok") =>
                   /\ licenses' = licenses
                   /\ ~last'.body.success
                   /\ last'.status = IF req[p].branch = "notfound" THEN 404 ELSE 403
                   /\ last'.body.message =
                         ActivateResponse(req[p].branch, req[p].license,
                                          req[p].today)[2].message]_vars

\* C13 happens: the decision table has just rejected as "expired" an activate
\* on an active license that, at the instant of the decision, is past its expiry
\* date and also bound to another machine.
C13_Witness ==
    \E p \in Slots :
       /\ req[p].pc = "act_log" /\ req[p].branch = "expired"
       /\ \E r \in licenses :
             /\ r.license_key = NormalizeKey(req[p].license_key)
             /\ r.is_active /\ ~Unexpired(r, req[p].today)
             /\ r.machine_id \notin {NULL, req[p].machine_id}

\* C14: a failure of the audit INSERT does not change the primary operation.
\* When an activate handler comes back from logActivation, whether the entry
\* was written or not, it sends the answer its decision fixed before the call
\* and the licenses are as the decision (and its UPDATE) left them.
C14_AuditFailureSwallowed ==
    [][\A p \in Slots :
          ActivateAnswers(p) =>
             LET resp == ActivateResponse(req[p].branch, req[p].license, req[p].today)
             IN /\ log' = log \/ (Len(log') = Len(log) + 1 /\ SubSeq(log', 1, Len(log)) = log)
                /\ last'.status = resp[1]
                /\ last'.body = resp[2]
                /\ licenses' = licenses]_vars

\* C14 happens: activate has just answered success and left the license bound
\* to the caller although its audit entry could not be written.
C14_Witness ==
    /\ last.op = "activate" /\ last.status = 200 /\ last.body.success
    /\ log = <<>>
    /\ \E r \in licenses :
          /\ r.license_key = NormalizeKey(last.request.license_key)
          /\ r.machine_id = last.request.machine_id

\* The message of the 500 each handler's catch answers.
FixedMessage(op) ==
    CASE op = "activate" -> "Erreur serveur lors de l'activation"
      [] op = "verify"   -> "Erreur serveur"
      [] op = "create"   -> "Erreur lors de la creation de la licence"
      [] op = "list"     -> "Erreur serveur"
      [] op = "reset"    -> "Erreur serveur"

\* The persistence layer fails slot p's handler when it asks for a connection.
ConnectFails(p) ==
    \/ \E k \in RawKeys, m \in MachineInputs, ip \in IpAddresses :
          ActivateConnectFail(p, k, m, ip)
    \/ \E k \in RawKeys, m \in MachineInputs : VerifyConnectFail(p, k, m)
    \/ \E a \in AdminKeyInputs, n \in ClientNameInputs, e \in DateInputs :
          CreateConnectFail(p, a, n, e)
    \/ \E a \in AdminKeyInputs : ListConnectFail(p, a)
    \/ \E a \in AdminKeyInputs, k \in RawKeys \cup {KeyUndefined} :
          ResetConnectFail(p, a, k)

\* The persistence layer fails a query of slot p's handler (the lookup, the
\* insert or the update; not the audit write).
QueryFails(p) ==
    \/ ActivateQueryFail(p)
    \/ VerifyQueryFail(p)
    \/ CreateQueryFail(p)
    \/ ListQueryFail(p)
    \/ ResetQueryFail(p)

\* C15: for activate, verify, create, list and resetMachine, a failure of the
\* persistence layer when the connection is acquired or at the lookup, the
\* insert or the update is answered to the caller, with status 500, success
\* false and the fixed message of the operation.
C15_FailureAnswered500 ==
    [][\A p \in Slots :
          (ConnectFails(p) \/ QueryFails(p))
          => /\ last'.status = 500
             /\ ~last'.body.success
             /\ last'.body.message = FixedMessage(last'.op)]_vars

\* C16: a handler holds one connection from the moment the pool gives it one
\* until it ends, and gives it back when it ends, however it ends (answer,
\* early return, caught error): the connections checked out are as many as
\* the handlers in flight, and none when no request is in flight.
C16_ConnectionsReleased ==
    /\ checkedOut = Cardinality({p \in Slots : InFlight(p)})
    /\ (\A p \in Slots : ~InFlight(p)) => checkedOut = 0

\* C16 happens: a handler has just ended in its catch, after another ended by
\* an early return or an answer, and no request is in flight.
C16_Witness ==
    /\ last.status = 500
    /\ admitted = MaxAdmitted
    /\ \A p \in Slots : ~InFlight(p)
    /\ checkedOut = 0

\* The INSERT of create is done, or refused, for slot p.
CreateInserts(p) == req[p].pc = "cre_insert" /\ req'[p].pc = "idle"

\* C17: no two rows of licenses have the same license_key, whatever keys
\* generateLicenseKey returns; a create whose generated key already has a row
\* inserts nothing, leaves the licenses as they were and answers an error
\* with no license in it.
C17_KeysUnique ==
    /\ [](\A r1 \in licenses, r2 \in licenses :
             r1.license_key = r2.license_key => r1 = r2)
    /\ [][\A p \in Slots :
             (CreateInserts(p) /\ RowsOfKey(req[p].gen_key) # {})
             => /\ licenses' = licenses
                /\ last'.status = 500
                /\ ~last'.body.success
                /\ last'.body.data = NoData]_vars

\* C17 happens: create has just been refused because the key it generated
\* already has a row.
C17_Witness ==
    /\ last.op = "create" /\ last.status = 500
    /\ licenses # {}
    /\ \A r \in licenses : r.license_key \in generateLicenseKey

\* The secret a caller supplies is the configured one.
CorrectSecret(admin_key) == admin_key # UNDEFINED /\ admin_key = adminKey

\* create with client_name or expires_at absent, and the correct secret, is
\* answered 400 and adds no row.
CreateValidates ==
    \A p \in Slots, a \in AdminKeyInputs, n \in ClientNameInputs, e \in DateInputs :
       (CorrectSecret(a) /\ (n = "" \/ e = NoDate) /\ CreateBegin(p, a, n, e))
       => /\ last'.status = 400 /\ ~last'.body.success
          /\ licenses' = licenses
          /\ ~InFlight(p)'

\* The INSERT of slot p's create adds exactly one row, unbound, active and
\* never activated, and the answer carries its key.
CreateAddsOne(p) ==
    /\ last'.status = 200 /\ last'.body.success
    /\ last'.body.data.license_key = req[p].gen_key
    /\ Cardinality(licenses') = Cardinality(licenses) + 1
    /\ licenses \subseteq licenses'
    /\ \A r \in licenses' \ licenses :
          /\ r.license_key = req[p].gen_key
          /\ r.client_name = req[p].client_name
          /\ r.expires_at = req[p].expires_at
          /\ r.machine_id = NULL
          /\ r.is_active
          /\ r.activated_at = NULL_TS

C19_ActivatedAtTracksBinding ==
    /\ [](\A r \in licenses : r.machine_id # NULL => r.activated_at # NULL_TS)
    /\ [][\A r \in licenses, r2 \in licenses' :
             (r2.license_key = r.license_key /\ r2.activated_at # r.activated_at)
             => (r.machine_id = NULL /\ r2.machine_id # NULL)]_vars

\* C20: the days_remaining of an activate answered success is at least 0, and
\* so is that of a verify answered valid; the days_remaining of a verify
\* answered not valid for an active license (not valid because expired) is at
\* most 0.
C20_DaysRemainingSign ==
    [][\A p \in Slots :
          /\ (ActivateAnswers(p) /\ last'.body.success)
                => last'.body.data.days_remaining >= 0
          /\ (VerifyAnswers(p) /\ last'.body.valid = "true")
                => last'.body.data.days_remaining >= 0
          /\ (VerifyAnswers(p) /\ last'.body.success /\ last'.body.valid = "false"
                /\ last'.body.data.is_active)
                => last'.body.data.days_remaining <= 0]_vars

\* C20 happens: activate has just answered success with 0 days remaining, for
\* a decision taken at the last valid instant, the clock having moved on since.
C20_Witness ==
    /\ last.op = "activate" /\ last.status = 200
    /\ last.body.data.days_remaining = 0
    /\ now > DateToInstant(last.body.data.expires_at)

====
